---- MODULE Spec2Model ----
(***************************************************************************)
(* OpalForge browser script: the multi-path model loader (loadModel with   *)
(* tryFetchInfo probes over MODEL_CANDIDATES) and the page's shared state  *)
(* (model slot, loader element, output element, console).                  *)
(*                                                                         *)
(* Every action is one run-to-completion step of the JavaScript event loop:*)
(* it starts where a listener is invoked or an await resumes and ends at   *)
(* the next await or return.                                               *)
(***************************************************************************)
EXTENDS Naturals, Integers, Sequences, FiniteSets, TLC

\* Longest candidate list explored (the list in the source has seven entries).
MaxCandidates == 3

\* `let model = null`: 0 is null, k > 0 is the handle that
\* tf.loadLayersModel(candidate k) resolved with.
null == 0

\* lastError before any load attempt has thrown (`let lastError = null`).
NoError == [name |-> "null", from |-> 0]

\* Console arguments of an entry that carries no object.
NoData == [none |-> TRUE]

\* Accepted file selections that may be in processing at the same time.
MaxPipelines == 2

\* Calls of loadModel explored when the sequence is run again.
MaxRuns == 2

\* Where an accepted selection's processing can be waiting: for the
\* FileReader, for the Image to decode, for predictImage to settle.
Stages == {"reading", "decoding", "predicting"}

\* What the page's environment can be: the `tf` global.
TfStates == {"undefined", "noLoadLayersModel", "ready"}

\* How a fetch(url) can end: 2xx response, non-2xx response, rejection.
FetchAnswers == {"ok", "http404", "network_error"}

\* How tf.loadLayersModel(url) can end: resolves, or throws (manifest not
\* parseable, shard fetch failed, CORS rejection: all surface as a throw).
LoadAnswers == {"ok", "ParseError"}

VARIABLES
    numCandidates,\* length of the candidate list the page was built with
    tfState,      \* the `tf` global of the page
    fetchAnswer,  \* environment: how fetch(candidate) ends during the main loop
    loadAnswer,   \* environment: how tf.loadLayersModel(candidate) ends
    pc,           \* position of loadModel: "start", "probe", "load", "done"
    idx,          \* loop variable `candidate` (index into MODEL_CANDIDATES)
    model,        \* the shared model slot
    loader,       \* loader.style.display
    output,       \* output.textContent
    lastError,    \* local of loadModel
    console,      \* entries written by log / warn / error in loadModel's own run
    inflight,     \* asynchronous operations issued and not yet settled
    summary,      \* entries logged by the detached re-probes (`probe c info`)
    pipelines,    \* accepted file selections still being processed, per stage
    imgPreview    \* the preview element: "hidden", or "shown" with an image

\* State only the file-input listener and its callbacks touch.
upload == <<pipelines, imgPreview>>

\* The environment: fixed for the lifetime of the page.
env == <<numCandidates, tfState, fetchAnswer, loadAnswer>>

\* The ordered candidate list; candidate k stands for its k-th entry.
MODEL_CANDIDATES == 1..numCandidates

vars == <<numCandidates, tfState, fetchAnswer, loadAnswer, pc, idx, model, loader, output,
          lastError, console, inflight, summary, pipelines, imgPreview>>

----------------------------------------------------------------------------
\* log / warn / error: one console entry.
Entry(level, msg, candidate, data) ==
    [level |-> level, msg |-> msg, candidate |-> candidate, data |-> data]

log(msg, candidate, data) == Entry("log", msg, candidate, data)
warn(msg, candidate, data) == Entry("warn", msg, candidate, data)
error(msg, candidate, data) == Entry("error", msg, candidate, data)

\* tryFetchInfo(url) for a fetch that ended as `answer`: never throws, returns
\* the info object; ok mirrors res.ok, a rejection gives {ok: false, error}.
\* The preview (first 1000 characters, or '(preview not available)' when the
\* body cannot be read) and the acao header are only logged; one value
\* stands for them.
tryFetchInfo(url, answer) ==
    CASE answer = "ok" ->
           [ok |-> TRUE, status |-> 200, url |-> url, preview |-> "body"]
      [] answer = "http404" ->
           [ok |-> FALSE, status |-> 404, url |-> url, preview |-> "body"]
      [] OTHER ->
           [ok |-> FALSE, error |-> "TypeError: Failed to fetch"]

\* An asynchronous operation in flight.
Op(kind, candidate) == [kind |-> kind, candidate |-> candidate]

\* The error object a failed tf.loadLayersModel(candidate) throws.
LoadError(candidate) == [name |-> loadAnswer[candidate], from |-> candidate]

----------------------------------------------------------------------------
Init ==
    /\ numCandidates \in 1..MaxCandidates
    /\ tfState \in TfStates
    /\ fetchAnswer \in [MODEL_CANDIDATES -> FetchAnswers]
    /\ loadAnswer \in [MODEL_CANDIDATES -> LoadAnswers]
    /\ pc = "start"
    /\ idx = 0
    /\ model = null
    /\ loader = "none"
    /\ output = ""
    /\ lastError = NoError
    /\ console = <<>>
    /\ inflight = {}
    /\ summary = {}
    /\ pipelines = [s \in Stages |-> 0]
    /\ imgPreview = "hidden"

----------------------------------------------------------------------------
\* Variant: the comparison never matches (`typeof tf === undefined`).
TfUndefinedNeverMatches == FALSE

\* `typeof tf === 'undefined'`
TfUndefined == tfState = "undefined"

\* Variant: the entry-point check is left out.
LoadLayersModelUnchecked == FALSE

\* `typeof tf.loadLayersModel !== 'function'` (evaluated when tf is defined)
LoadLayersModelMissing == tfState = "noLoadLayersModel"

\* Variant: the negation is dropped (`if (fetchInfo.ok) continue`).
ProbeFailedInverted(info) == info.ok

\* Variant: only a rejected fetch counts (`if (fetchInfo.error)`).
ProbeFailedOnErrorOnly(info) == "error" \in DOMAIN info

\* `if (!fetchInfo.ok)`: the probe reported failure.
ProbeFailed(info) == ~info.ok

\* Variant: the iteration advances twice.
NextCandidateSkips(i) == i + 2

\* `for (const candidate of MODEL_CANDIDATES)`: the entry after entry i.
NextCandidate(i) == i + 1

\* The asynchronous operations left once `settled` has settled.
Settle(settled) == inflight \ {settled}

\* Variant: the probe of the following candidate is started ahead of time.
StartProbePrefetch(i, cons, rest) ==
    /\ pc' = "probe"
    /\ idx' = i
    /\ console' = Append(cons, log("Probing candidate:", i, NoData))
    /\ inflight' = rest \cup {Op("probe", i)}
                        \cup {Op("probe", j) : j \in {i + 1} \cap MODEL_CANDIDATES}
    /\ UNCHANGED <<model, summary>>

\* Top of the loop body for candidate i: log, call tryFetchInfo(candidate),
\* suspend at the await. `rest` are the operations still in flight.
StartProbe(i, cons, rest) ==
    /\ pc' = "probe"
    /\ idx' = i
    /\ console' = Append(cons, log("Probing candidate:", i, NoData))
    /\ inflight' = rest \cup {Op("probe", i)}
    /\ UNCHANGED <<model, summary>>

\* Variant: the code after the loop does not hide the loader.
ExhaustedKeepsLoader(cons, err, rest) ==
    /\ loader' = loader
    /\ output' = "Model not loaded. See console for details."
    /\ console' = cons \o
         << error("Model load failed for all candidate paths. Last error:", 0, err),
            error("Network probes summary:", 0, NoData) >>
    /\ inflight' = rest \cup {Op("reprobe", c) : c \in MODEL_CANDIDATES}
    /\ pc' = "done"
    /\ UNCHANGED <<idx, model, summary>>

\* After the loop: report the failure, then start one detached tryFetchInfo
\* per candidate (`.then(log).catch()`, not awaited) and return.
Exhausted(cons, err, rest) ==
    /\ loader' = "none"
    /\ output' = "Model not loaded. See console for details."
    /\ console' = cons \o
         << error("Model load failed for all candidate paths. Last error:", 0, err),
            error("Network probes summary:", 0, NoData) >>
    /\ inflight' = rest \cup {Op("reprobe", c) : c \in MODEL_CANDIDATES}
    /\ pc' = "done"
    /\ UNCHANGED <<idx, model, summary>>

\* `continue` / end of the loop body after candidate i: the next candidate,
\* or the code after the loop when the list is exhausted.
Continue(i, cons, err, rest) ==
    IF NextCandidate(i) \in MODEL_CANDIDATES
    THEN StartProbe(NextCandidate(i), cons, rest) /\ UNCHANGED <<loader, output>>
    ELSE Exhausted(cons, err, rest)

\* Variant: a model that is already loaded is reused (`if (model) return`
\* after the first log line), so a later call probes nothing.
loadModelCached ==
    /\ lastError' = NoError
    /\ UNCHANGED <<env, upload>>
    /\ LET cons == Append(console, log("Starting model load sequence...", 0, NoData))
       IN IF model # null
          THEN /\ console' = cons
               /\ pc' = "done"
               /\ UNCHANGED <<idx, model, loader, output, inflight, summary>>
          ELSE /\ StartProbe(NextCandidate(0), cons, inflight)
               /\ loader' = "block"
               /\ output' = "Loading model..."

\* A call of loadModel(), up to its first await or return.
loadModel ==
    /\ lastError' = NoError
    /\ UNCHANGED <<env, upload>>
    /\ LET cons == Append(console, log("Starting model load sequence...", 0, NoData))
       IN CASE TfUndefined ->
                 /\ loader' = "none"
                 /\ output' = "TensorFlow.js not loaded. Check network/CSP."
                 /\ console' = Append(cons,
                        error("tf is undefined; TF.js script may be blocked or failed to load.", 0, NoData))
                 /\ pc' = "done"
                 /\ UNCHANGED <<idx, model, inflight, summary>>
            [] LoadLayersModelMissing ->
                 /\ loader' = "none"
                 /\ output' = "Incompatible TF.js build: loadLayersModel missing."
                 /\ console' = Append(cons,
                        error("tf.loadLayersModel is not a function. TF.js build missing layers API? tf:", 0, NoData))
                 /\ pc' = "done"
                 /\ UNCHANGED <<idx, model, inflight, summary>>
            [] OTHER ->
                 \* the loader stays shown while the loop is suspended
                 IF NextCandidate(0) \in MODEL_CANDIDATES
                 THEN /\ StartProbe(NextCandidate(0), cons, inflight)
                      /\ loader' = "block"
                      /\ output' = "Loading model..."
                 ELSE Exhausted(cons, NoError, inflight)

\* window 'load' listener: `await loadModel()`.
WindowLoad ==
    /\ pc = "start"
    /\ loadModel

\* Resumption of `await tryFetchInfo(candidate)` in the loop.
ProbeSettled ==
    /\ pc = "probe"
    /\ Op("probe", idx) \in inflight
    /\ UNCHANGED <<env, lastError, upload>>
    /\ LET fetchInfo == tryFetchInfo(idx, fetchAnswer[idx])
           cons == Append(console, log("Fetch result for", idx, fetchInfo))
           rest == Settle(Op("probe", idx))
       IN IF ProbeFailed(fetchInfo)
          THEN Continue(idx, Append(cons, warn("Fetch failed or not OK for", idx, fetchInfo)),
                        lastError, rest)
          ELSE /\ console' = Append(cons, log("Attempting tf.loadLayersModel(", idx, NoData))
               /\ inflight' = rest \cup {Op("load", idx)}
               /\ pc' = "load"
               /\ UNCHANGED <<idx, model, loader, output, summary>>

\* Variant: the `return` after a successful load is missing, so the loop
\* goes on and a later candidate can replace the model.
LoadSucceededKeepsGoing(rest) ==
    /\ model' = idx
    /\ loader' = "none"
    /\ output' = "Model loaded. Upload an image to start."
    /\ UNCHANGED <<lastError, summary>>
    /\ LET cons == Append(console,
                      log("Model loaded successfully from", idx, [handle |-> idx]))
       IN IF idx + 1 \in MODEL_CANDIDATES
          THEN /\ pc' = "probe"
               /\ idx' = idx + 1
               /\ console' = Append(cons, log("Probing candidate:", idx + 1, NoData))
               /\ inflight' = rest \cup {Op("probe", idx + 1)}
          ELSE /\ pc' = "done"
               /\ idx' = idx
               /\ console' = cons
               /\ inflight' = rest

\* `model = m; ...; return;` after tf.loadLayersModel(candidate) resolved.
LoadSucceeded(rest) ==
    /\ model' = idx
    /\ loader' = "none"
    /\ output' = "Model loaded. Upload an image to start."
    /\ console' = Append(console,
           log("Model loaded successfully from", idx, [handle |-> idx]))
    /\ inflight' = rest
    /\ pc' = "done"
    /\ UNCHANGED <<idx, lastError, summary>>

\* Variant: the error leaves the loop (`break` in the catch block).
LoadFailedAborts(rest) ==
    /\ lastError' = LoadError(idx)
    /\ Exhausted(Append(console, warn("tf.loadLayersModel failed for", idx, LoadError(idx))),
                 LoadError(idx), rest)

\* Variant: only the first error is kept (`lastError = lastError || e`).
LoadFailedKeepsFirst(rest) ==
    LET kept == IF lastError = NoError THEN LoadError(idx) ELSE lastError
    IN /\ lastError' = kept
       /\ Continue(idx,
              Append(console, warn("tf.loadLayersModel failed for", idx, LoadError(idx))),
              kept, rest)

\* The catch block after tf.loadLayersModel(candidate) threw: keep the
\* error, warn, go on with the next candidate.
LoadFailed(rest) ==
    /\ lastError' = LoadError(idx)
    /\ Continue(idx,
           Append(console, warn("tf.loadLayersModel failed for", idx, LoadError(idx))),
           LoadError(idx), rest)

\* Resumption of `await tf.loadLayersModel(candidate)`.
LoadSettled ==
    /\ pc = "load"
    /\ Op("load", idx) \in inflight
    /\ UNCHANGED <<env, upload>>
    /\ IF loadAnswer[idx] = "ok"
       THEN LoadSucceeded(Settle(Op("load", idx)))
       ELSE LoadFailed(Settle(Op("load", idx)))

\* Variant: the `.then` callback also shows the probe on the page.
ReprobeSettledShowsResult ==
    \E c \in MODEL_CANDIDATES, answer \in FetchAnswers :
        /\ Op("reprobe", c) \in inflight
        /\ summary' = summary \cup {log("probe", c, tryFetchInfo(c, answer))}
        /\ inflight' = Settle(Op("reprobe", c))
        /\ output' = "Probe finished. See console for details."
        /\ UNCHANGED <<env, pc, idx, model, loader, lastError, console, upload>>

\* A detached tryFetchInfo(c) of the summary pass settles and its `.then`
\* logs the info; whatever the network answers now.
ReprobeSettled ==
    \E c \in MODEL_CANDIDATES, answer \in FetchAnswers :
        /\ Op("reprobe", c) \in inflight
        /\ summary' = summary \cup {log("probe", c, tryFetchInfo(c, answer))}
        /\ inflight' = Settle(Op("reprobe", c))
        /\ UNCHANGED <<env, pc, idx, model, loader, output, lastError, console,
                       upload>>

----------------------------------------------------------------------------
\* One selection's processing moves from stage `from` to stage `to`
\* ("" for not started / finished).
Move(from, to) ==
    [s \in Stages |-> pipelines[s] - (IF s = from THEN 1 ELSE 0)
                                  + (IF s = to THEN 1 ELSE 0)]

InProcessing == pipelines["reading"] + pipelines["decoding"] + pipelines["predicting"]

\* Variant: the listener does not look at the model slot.
ModelMissingUnchecked == FALSE

\* `if (!model)` in the change listener.
ModelMissing == model = null

\* fileInput 'change' listener; hasFile is `e.target.files && e.target.files[0]`.
FileChange ==
    \E hasFile \in BOOLEAN :
        /\ UNCHANGED <<env, pc, idx, model, lastError, console, inflight, summary,
                       imgPreview>>
        /\ IF ~hasFile
           THEN /\ output' = "No file selected."
                /\ UNCHANGED <<loader, pipelines>>
           ELSE IF ModelMissing
           THEN /\ output' = "Model not loaded yet..."
                /\ UNCHANGED <<loader, pipelines>>
           ELSE /\ InProcessing < MaxPipelines
                /\ loader' = "block"
                /\ output' = "Processing image..."
                /\ pipelines' = Move("", "reading")

\* reader.onload: showPreview(dataUrl) and wait for the image to decode.
ReaderOnload ==
    /\ pipelines["reading"] > 0
    /\ imgPreview' = "shown"
    /\ pipelines' = Move("reading", "decoding")
    /\ UNCHANGED <<env, pc, idx, model, loader, output, lastError, console,
                   inflight, summary>>

\* reader.onerror
ReaderOnerror ==
    /\ pipelines["reading"] > 0
    /\ loader' = "none"
    /\ output' = "Error reading file."
    /\ pipelines' = Move("reading", "")
    /\ UNCHANGED <<env, pc, idx, model, lastError, console, inflight, summary,
                   imgPreview>>

\* img.onerror
ImgOnerror ==
    /\ pipelines["decoding"] > 0
    /\ loader' = "none"
    /\ output' = "Error loading image."
    /\ pipelines' = Move("decoding", "")
    /\ UNCHANGED <<env, pc, idx, model, lastError, console, inflight, summary,
                   imgPreview>>

\* img.onload up to `await predictImage(img)`; predictImage runs up to its
\* own await (or throws, which rejects its promise): nothing shared changes.
ImgOnload ==
    /\ pipelines["decoding"] > 0
    /\ pipelines' = Move("decoding", "predicting")
    /\ UNCHANGED <<env, pc, idx, model, loader, output, lastError, console,
                   inflight, summary, imgPreview>>

\* Variant: the loader is hidden at the end of the try block only, so a
\* failed prediction leaves it shown.
PredictSettledKeepsLoaderOnError ==
    \E threw \in BOOLEAN :
        /\ pipelines["predicting"] > 0
        /\ output' = IF threw THEN "Error processing image."
                               ELSE "Confidence: %.2f% Replica"
        /\ loader' = IF threw THEN loader ELSE "none"
        /\ pipelines' = Move("predicting", "")
        /\ UNCHANGED <<env, pc, idx, model, lastError, console, inflight, summary,
                       imgPreview>>

\* Resumption of `await predictImage(img)` in img.onload: the confidence is
\* shown, or the catch block reports the error; then the loader is hidden.
PredictSettled ==
    \E threw \in BOOLEAN :
        /\ pipelines["predicting"] > 0
        /\ output' = IF threw THEN "Error processing image."
                               ELSE "Confidence: %.2f% Replica"
        /\ loader' = "none"
        /\ pipelines' = Move("predicting", "")
        /\ UNCHANGED <<env, pc, idx, model, lastError, console, inflight, summary,
                       imgPreview>>

Next ==
    \/ WindowLoad
    \/ ProbeSettled
    \/ LoadSettled
    \/ ReprobeSettled
    \/ FileChange
    \/ ReaderOnload
    \/ ReaderOnerror
    \/ ImgOnerror
    \/ ImgOnload
    \/ PredictSettled

Spec == Init /\ [][Next]_vars

\* The page up to the return of loadModel and the file selections around it;
\* the detached re-probes, which are started by the returning step and write
\* the summary only, stay pending.
AwaitedNext ==
    \/ WindowLoad
    \/ ProbeSettled
    \/ LoadSettled
    \/ FileChange
    \/ ReaderOnload
    \/ ReaderOnerror
    \/ ImgOnerror
    \/ ImgOnload
    \/ PredictSettled

\* The same when every awaited probe and every awaited load settles: the
\* resumption after an await runs once the awaited operation has settled.
FairSpec ==
    Init /\ [][AwaitedNext]_vars /\ WF_vars(ProbeSettled) /\ WF_vars(LoadSettled)

----------------------------------------------------------------------------
(* The single-path variant of the script (static/js/app.js): loadModel loads *)
(* './model.json' (candidate 1) without probing; the file-input listener and *)
(* its callbacks are the same code as above.                                 *)

\* What `tf.loadLayersModel(...)` throws before any await when tf is not
\* usable; caught by loadModel's try block.
CallError == [name |-> IF tfState = "undefined" THEN "ReferenceError" ELSE "TypeError",
              from |-> 0]

AppInit ==
    /\ numCandidates = 1
    /\ tfState \in TfStates
    /\ fetchAnswer = [c \in 1..1 |-> "ok"]
    /\ loadAnswer \in [1..1 -> LoadAnswers]
    /\ pc = "app_start"
    /\ idx = 0
    /\ model = null
    /\ loader = "none"
    /\ output = ""
    /\ lastError = NoError
    /\ console = <<>>
    /\ inflight = {}
    /\ summary = {}
    /\ pipelines = [s \in Stages |-> 0]
    /\ imgPreview = "hidden"

\* The catch block of loadModel.
AppLoadFailed(err, rest) ==
    /\ loader' = "none"
    /\ output' = "Error loading model. Ensure model.json and weights are hosted and accessible via HTTP(S)."
    /\ console' = Append(console, error("Model load error:", 0, err))
    /\ inflight' = rest
    /\ pc' = "done"
    /\ UNCHANGED model

\* window 'load' listener: `await loadModel()`, up to the await in the try
\* block, or through the catch block when the call itself throws.
AppWindowLoad ==
    /\ pc = "app_start"
    /\ UNCHANGED <<env, idx, lastError, summary, upload>>
    /\ IF tfState = "ready"
       THEN /\ loader' = "block"
            /\ output' = "Loading model..."
            /\ inflight' = inflight \cup {Op("load", 1)}
            /\ pc' = "app_load"
            /\ UNCHANGED <<model, console>>
       ELSE AppLoadFailed(CallError, inflight)

\* Resumption of `await tf.loadLayersModel('./model.json')`.
AppLoadSettled ==
    /\ pc = "app_load"
    /\ Op("load", 1) \in inflight
    /\ UNCHANGED <<env, idx, lastError, summary, upload>>
    /\ IF loadAnswer[1] = "ok"
       THEN /\ model' = 1
            /\ loader' = "none"
            /\ output' = "Model loaded. Upload an image to start."
            /\ inflight' = Settle(Op("load", 1))
            /\ pc' = "done"
            /\ UNCHANGED console
       ELSE AppLoadFailed(LoadError(1), Settle(Op("load", 1)))

\* Either variant of the script, each with the file-input listener.
BothInit == Init \/ AppInit

BothNext ==
    \/ Next
    \/ AppWindowLoad
    \/ AppLoadSettled

BothSpec == BothInit /\ [][BothNext]_vars

----------------------------------------------------------------------------
(* The locate-and-load sequence run again on the same page *)

\* Console positions at which a call of loadModel started.
Starts == {i \in DOMAIN console : console[i].msg = "Starting model load sequence..."}

NumRuns == Cardinality(Starts)

\* loadModel() called once more after the previous call has returned; the
\* candidate list and the environment's answers are the same.
LoadModelAgain ==
    /\ pc = "done"
    /\ NumRuns < MaxRuns
    /\ loadModel

\* The loader alone: its detached re-probes stay pending and no file is
\* selected (neither is read by loadModel).
RerunNext ==
    \/ WindowLoad
    \/ ProbeSettled
    \/ LoadSettled
    \/ LoadModelAgain

RerunSpec == Init /\ [][RerunNext]_vars

----------------------------------------------------------------------------
(* Vocabulary of the properties *)

\* Candidates that both probe and load successfully.
Good == {c \in MODEL_CANDIDATES : fetchAnswer[c] = "ok" /\ loadAnswer[c] = "ok"}

FirstGood == CHOOSE k \in Good : \A j \in Good : k <= j

\* Candidates named by some console entry of loadModel.
ConsoleCandidates == {console[i].candidate : i \in DOMAIN console} \ {0}

\* Entries of console' that the step appended.
Appended == {console'[i] : i \in (DOMAIN console') \ (DOMAIN console)}

\* Messages of the error-level entries of the console.
ErrorReport == {console[i].msg : i \in {j \in DOMAIN console : console[j].level = "error"}}

IsFetchResult(e) == e.msg = "Fetch result for"

\* The probe results recorded by the main loop, in the order recorded.
allProbeResults == SelectSeq(console, IsFetchResult)

\* The step in which loadModel returns.
Finishes == pc # "done" /\ pc' = "done"

\* After candidate idx failed the loop is at the next candidate's probe, or
\* past the end of the list.
MovesOn ==
    IF idx < numCandidates
    THEN pc' = "probe" /\ idx' = idx + 1 /\ Op("probe", idx + 1) \in inflight'
    ELSE pc' = "done" /\ model' = null

LoadEntries == {"Attempting tf.loadLayersModel(", "Model loaded successfully from",
                "tf.loadLayersModel failed for"}

----------------------------------------------------------------------------
\* C1: with the runtime ready and some candidate that both probes and loads
\* successfully, no candidate after the first such one is ever probed or
\* loaded, and loadModel returns with the model of that first candidate, the
\* loader hidden and the output 'Model loaded. Upload an image to start.'.
C1_State ==
    (tfState = "ready" /\ Good # {}) =>
        /\ ConsoleCandidates \subseteq 1..FirstGood
        /\ \A op \in inflight : op.kind \in {"probe", "load"} /\ op.candidate <= FirstGood
        /\ summary = {}
        /\ pc = "done" => model = FirstGood /\ inflight = {}

C1_Step ==
    (tfState = "ready" /\ Good # {} /\ Finishes) =>
        /\ model' = FirstGood
        /\ loader' = "none"
        /\ output' = "Model loaded. Upload an image to start."

C1_FirstLoadableCandidateWins == [] C1_State /\ [][C1_Step]_vars

C1_Witness ==
    /\ pc = "done" /\ model = 2 /\ Good = {2, 3}
    /\ output = "Model loaded. Upload an image to start."

\* C2: when every candidate fails at the probe or at the load, loadModel
\* returns with the Failed outcome (model null, 'Model not loaded. See
\* console for details.') and the main loop has recorded exactly one probe
\* result per candidate, in list order.
C2_State ==
    (tfState = "ready" /\ Good = {} /\ pc = "done") =>
        /\ model = null
        /\ "Model load failed for all candidate paths. Last error:" \in ErrorReport
        /\ Len(allProbeResults) = numCandidates
        /\ \A i \in MODEL_CANDIDATES :
              allProbeResults[i] = log("Fetch result for", i, tryFetchInfo(i, fetchAnswer[i]))

C2_Step ==
    (tfState = "ready" /\ Good = {} /\ Finishes) =>
        /\ loader' = "none"
        /\ output' = "Model not loaded. See console for details."

C2_AllFailRecordsEveryProbe == [] C2_State /\ [][C2_Step]_vars

C2_Witness ==
    /\ tfState = "ready" /\ pc = "done" /\ numCandidates = 3
    /\ fetchAnswer[1] = "ok" /\ loadAnswer[1] = "ParseError"
    /\ fetchAnswer[2] = "http404" /\ fetchAnswer[3] = "network_error"
    /\ Len(allProbeResults) = 3

\* C3: with tf undefined, loadModel returns in the step it starts in, with
\* 'TensorFlow.js not loaded. Check network/CSP.'; no candidate is ever probed
\* or loaded, no probe result exists and the model slot stays null.
C3_State ==
    tfState = "undefined" =>
        /\ model = null
        /\ pc \in {"start", "done"}
        /\ inflight = {} /\ summary = {}
        /\ ConsoleCandidates = {} /\ allProbeResults = << >>
        /\ pc = "done" =>
              ErrorReport = {"tf is undefined; TF.js script may be blocked or failed to load."}

C3_Step ==
    (tfState = "undefined" /\ pc = "start" /\ pc' # pc) =>
        /\ pc' = "done"
        /\ loader' = "none"
        /\ output' = "TensorFlow.js not loaded. Check network/CSP."

C3_RuntimeAbsentEndsAtOnce == [] C3_State /\ [][C3_Step]_vars

C3_Witness ==
    /\ tfState = "undefined" /\ pc = "done"
    /\ output = "TensorFlow.js not loaded. Check network/CSP."

\* C4: a tf without loadLayersModel ends loadModel at once with a report and
\* an output that occur in no other outcome (runtime absent, candidates
\* exhausted, loaded), and no candidate is probed or loaded.
C4_State ==
    /\ tfState = "noLoadLayersModel" =>
          /\ model = null
          /\ pc \in {"start", "done"}
          /\ inflight = {} /\ summary = {}
          /\ ConsoleCandidates = {}
    /\ pc = "done" =>
          (tfState = "noLoadLayersModel" <=>
             ErrorReport = {"tf.loadLayersModel is not a function. TF.js build missing layers API? tf:"})

C4_Step ==
    Finishes =>
        /\ loader' = "none"
        /\ tfState = "noLoadLayersModel" <=>
              output' = "Incompatible TF.js build: loadLayersModel missing."

C4_MissingEntryPointIsDistinct == [] C4_State /\ [][C4_Step]_vars

C4_Witness ==
    /\ tfState = "noLoadLayersModel" /\ pc = "done"
    /\ output = "Incompatible TF.js build: loadLayersModel missing."

\* C5: a candidate whose probe fails (fetch rejected, or a non-2xx status)
\* has its probe result recorded, is never handed to tf.loadLayersModel, and
\* the loop goes on with the next candidate in list order.
C5_State ==
    \A c \in MODEL_CANDIDATES :
        fetchAnswer[c] # "ok" =>
            /\ Op("load", c) \notin inflight
            /\ model # c
            /\ \A i \in DOMAIN console :
                  console[i].candidate = c => console[i].msg \notin LoadEntries

C5_Step ==
    (pc = "probe" /\ fetchAnswer[idx] # "ok" /\ console' # console) =>
        /\ log("Fetch result for", idx, tryFetchInfo(idx, fetchAnswer[idx])) \in Appended
        /\ Op("load", idx) \notin inflight'
        /\ MovesOn

C5_FailedProbeSkipsLoad == [] C5_State /\ [][C5_Step]_vars

C5_Witness ==
    /\ pc = "probe" /\ idx = 3
    /\ fetchAnswer[1] = "http404" /\ fetchAnswer[2] = "network_error"
    /\ Len(allProbeResults) = 2

\* C6: a load that throws after a successful probe is recorded as a load
\* failure (lastError, 'tf.loadLayersModel failed for'), not as a probe
\* failure, and the loop goes on with the next candidate; with A failing its
\* probe, B probing but failing to load and C probing and loading, loadModel
\* returns with C's model.
C6_State ==
    ( /\ tfState = "ready" /\ numCandidates >= 3 /\ pc = "done"
      /\ fetchAnswer[1] # "ok"
      /\ fetchAnswer[2] = "ok" /\ loadAnswer[2] # "ok"
      /\ fetchAnswer[3] = "ok" /\ loadAnswer[3] = "ok" ) => model = 3

C6_Step ==
    (pc = "load" /\ loadAnswer[idx] # "ok" /\ console' # console) =>
        /\ lastError' = LoadError(idx)
        /\ warn("tf.loadLayersModel failed for", idx, LoadError(idx)) \in Appended
        /\ \A i \in DOMAIN console' :
              console'[i].candidate = idx => console'[i].msg # "Fetch failed or not OK for"
        /\ MovesOn

C6_LoadFailureContinues == [] C6_State /\ [][C6_Step]_vars

C6_Witness ==
    /\ numCandidates = 3 /\ pc = "done" /\ model = 3
    /\ fetchAnswer[1] # "ok"
    /\ fetchAnswer[2] = "ok" /\ loadAnswer[2] # "ok"
    /\ lastError = [name |-> "ParseError", from |-> 2]

\* Candidates whose probe and load have both settled (or been skipped).
Settled == 1..(IF pc = "done" THEN idx ELSE idx - 1)

FailedLoads == {c \in Settled : fetchAnswer[c] = "ok" /\ loadAnswer[c] # "ok"}

LastFailedLoad == CHOOSE k \in FailedLoads : \A j \in FailedLoads : j <= k

ExpectedLastError == IF FailedLoads = {} THEN NoError ELSE LoadError(LastFailedLoad)

\* C7: lastError is always the error of the most recent load that threw
\* (null when none has), so probe failures never change it, and it is the
\* error reported when the list is exhausted; with the single candidate A
\* probing successfully and its load throwing a parse error, the outcome is
\* Failed with that parse error and exactly one probe result.
C7_LastErrorIsLatestLoadFailure ==
    /\ lastError = ExpectedLastError
    /\ (tfState = "ready" /\ pc = "done" /\ model = null) =>
          \E i \in DOMAIN console :
              console[i] = error("Model load failed for all candidate paths. Last error:",
                                 0, ExpectedLastError)
    /\ ( /\ tfState = "ready" /\ pc = "done" /\ numCandidates = 1
         /\ fetchAnswer[1] = "ok" /\ loadAnswer[1] = "ParseError" ) =>
          /\ model = null
          /\ lastError = [name |-> "ParseError", from |-> 1]
          /\ Len(allProbeResults) = 1

C7_Witness ==
    /\ numCandidates = 3 /\ pc = "done" /\ model = null
    /\ fetchAnswer[1] = "ok" /\ fetchAnswer[2] = "ok" /\ fetchAnswer[3] = "http404"
    /\ lastError = [name |-> "ParseError", from |-> 2]

\* C8: while the loop runs exactly one asynchronous operation is in flight,
\* the probe or the load of the current candidate; nothing of any other
\* candidate is in flight, so the next probe starts only after the current
\* candidate's operations have settled.
C8_OneOperationInFlight ==
    /\ pc = "start" => inflight = {}
    /\ pc = "probe" => inflight = {Op("probe", idx)}
    /\ pc = "load" => inflight = {Op("load", idx)}
    /\ pc = "done" => \A op \in inflight : op.kind = "reprobe"

C8_Witness ==
    /\ pc = "load" /\ idx = 2 /\ numCandidates = 3
    /\ inflight = {Op("load", 2)}

\* C9: the model slot changes only in the step in which a load of the loop
\* resolved, from null to that candidate's handle, and loadModel returns in
\* that step; so it is written at most once, never reset, and once it is set
\* nothing of the loader is in flight any more.
C9_State ==
    model # null =>
        /\ model \in MODEL_CANDIDATES
        /\ pc = "done"
        /\ inflight = {}

C9_Step ==
    model' # model =>
        /\ model = null
        /\ pc = "load" /\ loadAnswer[idx] = "ok"
        /\ model' = idx
        /\ pc' = "done"

C9_ModelWrittenOnce == [] C9_State /\ [][C9_Step]_vars

C9_Witness ==
    /\ model = 1 /\ Good = {1, 2, 3}
    /\ pipelines["predicting"] > 0 /\ pipelines["reading"] > 0

\* C10: the step that exhausts the list hides the loader, shows 'Model not
\* loaded. See console for details.', reports lastError and returns with
\* every re-probe still pending; a re-probe that settles, whatever it
\* returns, changes nothing but the summary.
C10_State ==
    summary # {} => pc = "done" /\ model = null

C10_Exhausts ==
    (tfState = "ready" /\ Finishes /\ model' = null) =>
        /\ loader' = "none"
        /\ output' = "Model not loaded. See console for details."
        /\ error("Model load failed for all candidate paths. Last error:", 0, lastError')
              \in Appended
        /\ summary' = {}
        /\ inflight' = {Op("reprobe", c) : c \in MODEL_CANDIDATES}

C10_Reprobe ==
    (summary' # summary \/ \E c \in MODEL_CANDIDATES :
                              Op("reprobe", c) \in inflight \ inflight') =>
        UNCHANGED <<model, output, loader, pc, idx, lastError, console, upload>>

C10_ReprobesAreDetached ==
    [] C10_State /\ [][C10_Exhausts]_vars /\ [][C10_Reprobe]_vars

C10_Witness ==
    /\ pc = "done" /\ model = null /\ loader = "none"
    /\ output = "Model not loaded. See console for details."
    /\ log("probe", 2, tryFetchInfo(2, "ok")) \in summary
    /\ fetchAnswer[2] = "http404"
    /\ Op("reprobe", 1) \in inflight

\* Where the k-th call's console entries begin and end.
RunStart(k) == CHOOSE i \in Starts : Cardinality({j \in Starts : j <= i}) = k

RunEnd(k) == IF k < NumRuns THEN RunStart(k + 1) - 1 ELSE Len(console)

\* What the k-th call of loadModel wrote to the console.
Run(k) == SubSeq(console, RunStart(k), RunEnd(k))

IsProbing(e) == e.msg = "Probing candidate:"

IsLoaded(e) == e.msg = "Model loaded successfully from"

\* C11: a later call of loadModel against the same list and answers repeats
\* the first call entry by entry: it probes the same candidates afresh (one
\* 'Probing candidate:' per candidate the first call probed, a new fetch in
\* flight) and ends with the same candidate's model.
C11_State ==
    \A k \in 2..NumRuns :
        /\ Len(Run(k)) <= Len(Run(1))
        /\ Run(k) = SubSeq(Run(1), 1, Len(Run(k)))
        /\ (k < NumRuns \/ pc = "done") =>
              /\ Run(k) = Run(1)
              /\ SelectSeq(Run(k), IsProbing) = SelectSeq(Run(1), IsProbing)
              /\ tfState = "ready" => Len(SelectSeq(Run(k), IsProbing)) >= 1
              /\ model # null =>
                    SelectSeq(Run(k), IsLoaded)
                      = << log("Model loaded successfully from", model, [handle |-> model]) >>

C11_Step ==
    (pc = "done" /\ pc' = "probe") => Op("probe", 1) \in inflight' \ inflight

C11_RerunSelectsSameCandidate == [] C11_State /\ [][C11_Step]_vars

C11_Witness ==
    /\ NumRuns = 2 /\ pc = "done" /\ model = 2
    /\ Run(2) = Run(1)
    /\ Len(SelectSeq(Run(2), IsProbing)) = 2

\* C12: in both variants, while the model slot is null a file selection can
\* only set the output to 'Model not loaded yet...' (or 'No file selected.'):
\* it starts no read, no preview and no prediction and leaves the loader as
\* it is; so nothing is ever in processing, and no prediction runs, without
\* a model.
C12_State ==
    /\ model = null =>
          /\ InProcessing = 0 /\ imgPreview = "hidden"
          /\ ENABLED (FileChange /\ output' = "Model not loaded yet...")
          /\ ~ ENABLED (FileChange /\ (pipelines' # pipelines \/ loader' # loader))
    /\ pipelines["predicting"] > 0 => model # null

C12_Step ==
    /\ model = null => UNCHANGED <<pipelines, imgPreview>>
    /\ (output' # output /\ output' = "Model not loaded yet...") =>
          model = null /\ UNCHANGED <<model, loader, pipelines, imgPreview, pc, inflight>>

C12_NoProcessingWithoutModel == [] C12_State /\ [][C12_Step]_vars

C12_Witness ==
    /\ pc = "app_load" /\ model = null
    /\ output = "Model not loaded yet..." /\ loader = "block"

C12_WitnessAfterFailure ==
    /\ pc = "done" /\ model = null /\ numCandidates = 3
    /\ output = "Model not loaded yet..." /\ loader = "none"

IsAttempt(e) == e.msg = "Attempting tf.loadLayersModel("

TerminalMessages ==
    {"Model loaded. Upload an image to start.",
     "TensorFlow.js not loaded. Check network/CSP.",
     "Incompatible TF.js build: loadLayersModel missing.",
     "Model not loaded. See console for details."}

\* C13: when every awaited probe and load settles, a started loadModel
\* returns; the main loop probes each candidate at most once and loads each
\* at most once; the returning step hides the loader and sets the output to
\* one of the four terminal messages, and after the return the output is
\* never 'Loading model...'.
C13_State ==
    /\ \A c \in MODEL_CANDIDATES :
          /\ Cardinality({i \in DOMAIN console :
                            IsProbing(console[i]) /\ console[i].candidate = c}) <= 1
          /\ Cardinality({i \in DOMAIN console :
                            IsAttempt(console[i]) /\ console[i].candidate = c}) <= 1
    /\ pc = "done" => output # "Loading model..."

C13_Step ==
    Finishes => loader' = "none" /\ output' \in TerminalMessages

C13_LoadModelTerminates ==
    /\ [] C13_State
    /\ [][C13_Step]_vars
    /\ (pc \in {"probe", "load"}) ~> (pc = "done")

C13_Witness ==
    /\ pc = "done" /\ numCandidates = 3 /\ model = 3
    /\ Len(SelectSeq(console, IsProbing)) = 3
    /\ Len(SelectSeq(console, IsAttempt)) = 2

\* What a terminal callback of a selection's processing leaves in the output.
ProcessingResults ==
    {"Confidence: %.2f% Replica", "Error processing image.",
     "Error loading image.", "Error reading file."}

\* C14: the step in which the last selection in processing reaches a
\* terminal callback hides the loader and leaves a confidence or an error
\* message; and whenever a model is loaded and no selection is in
\* processing, the loader is hidden and the output is not 'Processing
\* image...', however many selections overlapped and in whatever order they
\* finished.
C14_State ==
    (model # null /\ InProcessing = 0) =>
        loader = "none" /\ output # "Processing image..."

C14_Step ==
    (InProcessing > 0 /\ InProcessing' = 0) =>
        loader' = "none" /\ output' \in ProcessingResults

C14_AllFinishedHidesLoader == [] C14_State /\ [][C14_Step]_vars

C14_Witness ==
    /\ InProcessing = 0 /\ imgPreview = "shown" /\ loader = "none"
    /\ output = "Error reading file."

\* C15: while some accepted selection is still in processing, the loader is
\* displayed.
C15_LoaderShownWhileProcessing ==
    InProcessing > 0 => loader = "block"


====
